---- MODULE Spec2Model ----
(***************************************************************************)
(* Model of src/main.py: Discourse.get_list_of_users_email, the paginated  *)
(* listing with rate-limit retry, the snapshot file discourse_users.json,  *)
(* the semaphore-bounded per-user detail tasks, and the filter and sort.   *)
(* One step of the model is one run of a coroutine between two awaits.     *)
(***************************************************************************)
EXTENDS Integers, Sequences, FiniteSets, TLC

\* ------------------------------------------------------------- bounds
MaxEntries == 2      \* summaries a listing accumulates, hence tasks
MaxPage == 3         \* highest page number the model requests
MaxPageLen == 2      \* summaries on one listing page
MaxRateLimits == 2   \* rate-limit responses the remote gives in one run
MaxWait == 2         \* largest wait_seconds hint
MaxConcurrency == 2  \* largest value of the concurrency parameter
MaxRuns == 2         \* runs of the program, one after the other

\* ------------------------------------------------------------- dates
IsLeap(y) == (y % 4 = 0) /\ ((y % 100 # 0) \/ (y % 400 = 0))

DaysInMonth(y, m) ==
    IF m = 2 THEN (IF IsLeap(y) THEN 29 ELSE 28)
    ELSE IF m \in {4, 6, 9, 11} THEN 30 ELSE 31

RECURSIVE DaysBeforeMonth(_, _)
DaysBeforeMonth(y, m) ==
    IF m = 1 THEN 0 ELSE DaysBeforeMonth(y, m - 1) + DaysInMonth(y, m - 1)

DaysBeforeYear(y) ==
    (y - 1) * 365 + ((y - 1) \div 4) - ((y - 1) \div 100) + ((y - 1) \div 400)

\* datetime.date(y, m, d).toordinal()
Ordinal(y, m, d) == DaysBeforeYear(y) + DaysBeforeMonth(y, m) + d

\* calendar.timegm of midnight of the date <<y, m, d>>
Timegm(date) ==
    (Ordinal(date[1], date[2], date[3]) - Ordinal(1970, 1, 1)) * (24 * 60 * 60)

\* created_at strings are ISO-8601 UTC instants; a created_at is the record
\* of the fields the string spells: its date <<y, m, d>> and the second of
\* the day.
D1 == <<2023, 12, 31>>
D2 == <<2024, 2, 29>>
D3 == <<2024, 3, 1>>
D4 == <<2024, 3, 2>>

CreatedAts ==
    { [date |-> D2, sec |-> (24 * 60 * 60) - 1],
      [date |-> D3, sec |-> 12 * 60 * 60],
      [date |-> D4, sec |-> 60] }

NoCreatedAt == [date |-> <<0, 0, 0>>, sec |-> 0]

created_at_to_utc_instant(created_at) == Timegm(created_at.date) + created_at.sec
\* date_parser.parse(created_at).date(), then timegm of its UTC midnight
created_at_to_utc_midnight_ts(created_at) == Timegm(created_at.date)

DateLess(a, b) ==
    \/ a[1] < b[1]
    \/ a[1] = b[1] /\ a[2] < b[2]
    \/ a[1] = b[1] /\ a[2] = b[2] /\ a[3] < b[3]

\* the _utc_timestemp argument: None, or an integer timestamp
NoCutoff == [given |-> FALSE, ts |-> 0]
CutoffArgs ==
    { NoCutoff,
      [given |-> TRUE, ts |-> Timegm(D2) + (24 * 60 * 60) - 1],
      [given |-> TRUE, ts |-> Timegm(D3) + 60 * 60] }

\* int(time.time()) as line 130 reads it
WallClock == Timegm(D3) + 2 * 60 * 60

\* the calendar (UTC) date of a timestamp, among the dates of the model
DateOfTs(ts) ==
    CHOOSE d \in {D1, D2, D3, D4} :
        Timegm(d) <= ts /\ ts < Timegm(d) + (24 * 60 * 60)

\* ------------------------------------------------------------- summaries
\* A UserSummary is one row of the listing. The HTTP client raises a
\* TypeError for the request built from the identifier 0.
UserIds == 0 .. 2
UserNames == [i \in UserIds |-> IF i = 0 THEN "zed" ELSE IF i = 1 THEN "ann" ELSE "bob"]
FullNames == [i \in UserIds |-> IF i = 0 THEN "Zed" ELSE IF i = 1 THEN "Ann" ELSE "Bob"]
Emails == [i \in UserIds |-> IF i = 0 THEN "z@x" ELSE IF i = 1 THEN "a@x" ELSE "b@x"]

Summary(i) ==
    [id |-> i, username |-> UserNames[i], name |-> FullNames[i], email |-> Emails[i]]

Summaries == { Summary(i) : i \in UserIds }

SeqsUpTo(S, n) == UNION { [1 .. k -> S] : k \in 0 .. n }

\* ------------------------------------------------------------- JSON text
\* The snapshot file holds text. The text of an array of summaries is the
\* sequence of its tokens: "[", then for each object "{", its four members
\* in insertion order, "}", then "]".
Tok(k, n, s) == [k |-> k, n |-> n, s |-> s]

ObjectTokens(o) ==
    << Tok("{", 0, ""),
       Tok("id", o.id, ""),
       Tok("username", 0, o.username),
       Tok("name", 0, o.name),
       Tok("email", 0, o.email),
       Tok("}", 0, "") >>

RECURSIVE ArrayTokensReversed(_)
ArrayTokensReversed(list) ==
    IF list = << >> THEN << >>
    ELSE ArrayTokensReversed(Tail(list)) \o ObjectTokens(Head(list))

RECURSIVE ArrayTokens(_)
\* the objects of the array, one after the other
ArrayTokens(list) ==
    IF list = << >> THEN << >>
    ELSE ObjectTokens(Head(list)) \o ArrayTokens(Tail(list))

\* json.dump(json_data, f, indent=4, ensure_ascii=False)
JsonDump(list) == << Tok("[", 0, "") >> \o ArrayTokens(list) \o << Tok("]", 0, "") >>

ParseObject(text, at) ==
    [id |-> text[at + 1].n,
     username |-> text[at + 2].s,
     name |-> text[at + 3].s,
     email |-> text[at + 4].s]

RECURSIVE ParseObjects(_, _)
ParseObjects(text, at) ==
    IF text[at].k = "]" THEN << >>
    ELSE << ParseObject(text, at) >> \o ParseObjects(text, at + 6)

JsonLoadSkipFirst(text) ==
    IF Len(text) > 2 THEN ParseObjects(text, 8) ELSE << >>
\* json.load(f)
JsonLoad(text) == ParseObjects(text, 2)

\* ------------------------------------------------------------- responses
\* A response body that is not JSON is text: a sequence of lines, a line a
\* sequence of tokens, a token a run of digits (its value, >= 0) or a word
\* (-1).
TextBodies ==
    { << << -1, -1 >>, << -1, w, -1 >> >> : w \in 1 .. MaxWait }
      \cup { << << -1, 429 >> >>, << << -1 >>, << -1, -1 >> >> }

Digits(line) == SelectSeq(line, LAMBDA tok : tok >= 0)

\* int(re.findall(r"\d+", lines[1])[0]) succeeds
HasWaitHint(text) == Len(text) >= 2 /\ Digits(text[2]) # << >>
WaitHint(text) == Head(Digits(text[2]))

\* A response body that is JSON is an array (of summaries) or an object;
\* an object is a record of its members and of the set of the keys present.
NoBody == [keys |-> {}, error_type |-> "", wait_seconds |-> 0,
           created_at |-> NoCreatedAt, external_ids |-> {},
           silenced |-> 0, suspended |-> 0]

\* {"errors": [...], "error_type": "rate_limit", "extras": {"wait_seconds": w}}
RateLimitBody(w) ==
    [NoBody EXCEPT !.keys = {"errors", "error_type", "extras"},
                   !.error_type = "rate_limit", !.wait_seconds = w]

\* {"errors": [...], "extras": {"wait_seconds": w}}
ErrorsBody(w) ==
    [NoBody EXCEPT !.keys = {"errors", "extras"}, !.wait_seconds = w]

\* {"errors": [...], "error_type": "rate_limit"}: no wait hint
NoExtrasBody ==
    [NoBody EXCEPT !.keys = {"errors", "error_type"}, !.error_type = "rate_limit"]

\* external_ids is a mapping provider -> id: the set of its items
ExternalIdsChoices == { {}, { <<"oidc", "sub">> }, { <<"github", "gh">> } }
PenaltyChoices == { <<0, 0>>, <<1, 0>>, <<0, 1>>, <<1, 2>> }

DetailBody(c, hasC, e, hasE, p, hasP) ==
    [NoBody EXCEPT
        !.keys = (IF hasC THEN {"created_at"} ELSE {})
                 \cup (IF hasE THEN {"external_ids"} ELSE {})
                 \cup (IF hasP THEN {"penalty_counts"} ELSE {}),
        !.created_at = IF hasC THEN c ELSE NoCreatedAt,
        !.external_ids = IF hasE THEN e ELSE {},
        !.silenced = IF hasP THEN p[1] ELSE 0,
        !.suspended = IF hasP THEN p[2] ELSE 0]

DetailBodies ==
    { DetailBody(c, TRUE, e, TRUE, p, TRUE) :
        c \in CreatedAts, e \in ExternalIdsChoices, p \in PenaltyChoices }
    \cup { DetailBody(NoCreatedAt, FALSE, e, TRUE, p, TRUE) :
        e \in { {}, { <<"oidc", "sub">> } }, p \in { <<0, 0>>, <<1, 2>> } }
    \cup { DetailBody(c, TRUE, {}, FALSE, <<0, 0>>, FALSE) : c \in CreatedAts }

Response(kind, list, body, text) ==
    [kind |-> kind, list |-> list, body |-> body, text |-> text]
ArrayResponse(list) == Response("array", list, NoBody, << >>)
ObjectResponse(body) == Response("object", << >>, body, << >>)
TextResponse(text) == Response("text", << >>, NoBody, text)

\* what the remote may answer to GET /admin/users/list/{flag}.json
ListingResponses ==
    { ArrayResponse(l) : l \in SeqsUpTo(Summaries, MaxPageLen) }
    \cup { ObjectResponse(ErrorsBody(w)) : w \in 1 .. MaxWait }
    \cup { ObjectResponse(NoExtrasBody) }
    \cup { TextResponse(t) : t \in TextBodies }

\* what the remote may answer to GET /admin/users/{id}.json
DetailResponses ==
    { ObjectResponse(b) : b \in DetailBodies }
    \cup { ObjectResponse(RateLimitBody(w)) : w \in 1 .. MaxWait }
    \cup { ObjectResponse(ErrorsBody(w)) : w \in 1 .. MaxWait }
    \cup { ObjectResponse(NoExtrasBody) }
    \cup { TextResponse(t) : t \in TextBodies }

\* dict.get(key) on external_ids; "" stands for None
DictGet(items, key) ==
    IF \E it \in items : it[1] = key
    THEN (CHOOSE it \in items : it[1] = key)[2]
    ELSE ""

\* ------------------------------------------------------------- filter
NoRecord == [username |-> "", name |-> "", email |-> "", oidc |-> "",
             created_at |-> NoCreatedAt]
NoResult == [some |-> FALSE, rec |-> NoRecord]

Sleep(w) == [kind |-> "sleep", wait |-> w, res |-> NoResult]
Raise == [kind |-> "raise", wait |-> 0, res |-> NoResult]
Return(res) == [kind |-> "return", wait |-> 0, res |-> res]

\* lines 150-155: the body is not JSON
TextOutcome(text) == IF HasWaitHint(text) THEN Sleep(WaitHint(text)) ELSE Raise

\* line 157
IsRateLimit(status) ==
    "error_type" \in status.keys /\ status.error_type = "rate_limit"

\* lines 158-161
RateLimitOutcome(status) ==
    IF "extras" \in status.keys THEN Sleep(status.wait_seconds) ELSE Raise

\* line 169
IsPenalized(status) == status.silenced # 0 /\ status.suspended # 0

IsTooNewReversed(ts, cutoff) == ts < cutoff
\* line 176
IsTooNew(ts, cutoff) == ts > cutoff

ListedRecordNameFromUsername(index, status) ==
    [username |-> index.username,
     name |-> index.username,
     email |-> index.email,
     oidc |-> DictGet(status.external_ids, "oidc"),
     created_at |-> status.created_at]

\* lines 184-191
ListedRecord(index, status) ==
    [username |-> index.username,
     name |-> index.name,
     email |-> index.email,
     oidc |-> DictGet(status.external_ids, "oidc"),
     created_at |-> status.created_at]

FilterOutcomeNoIdCheck(index, status, cutoff) ==
    IF status.silenced # 0 /\ status.suspended # 0 THEN Return(NoResult)
    ELSE IF "created_at" \notin status.keys THEN Raise
    ELSE IF created_at_to_utc_midnight_ts(status.created_at) > cutoff
         THEN Return(NoResult)
    ELSE Return([some |-> TRUE,
                 rec |-> [username |-> index.username,
                          name |-> index.name,
                          email |-> index.email,
                          oidc |-> DictGet(status.external_ids, "oidc"),
                          created_at |-> status.created_at]])

FilterOutcomeDateFirst(index, status, cutoff) ==
    IF "created_at" \notin status.keys THEN Raise
    ELSE IF IsTooNew(created_at_to_utc_midnight_ts(status.created_at), cutoff)
         THEN Return(NoResult)
    ELSE IF IsPenalized(status) THEN Return(NoResult)
    ELSE IF status.external_ids = {} THEN Return(NoResult)
    ELSE Return([some |-> TRUE, rec |-> ListedRecord(index, status)])

\* lines 163-191: the decision on a detail object
FilterOutcome(index, status, cutoff) ==
    IF IsPenalized(status) THEN Return(NoResult)
    ELSE IF "created_at" \notin status.keys THEN Raise
    ELSE IF IsTooNew(created_at_to_utc_midnight_ts(status.created_at), cutoff)
         THEN Return(NoResult)
    ELSE IF status.external_ids = {} THEN Return(NoResult)
    ELSE Return([some |-> TRUE, rec |-> ListedRecord(index, status)])

\* lines 148-191: what a task does with the response to its request
DetailOutcome(index, resp, cutoff) ==
    IF resp.kind = "text" THEN TextOutcome(resp.text)
    ELSE IF IsRateLimit(resp.body) THEN RateLimitOutcome(resp.body)
    ELSE FilterOutcome(index, resp.body, cutoff)

ListingOutcomeSwallow(resp) ==
    IF resp.kind = "text"
    THEN (IF HasWaitHint(resp.text) THEN Sleep(WaitHint(resp.text))
          ELSE [kind |-> "break", wait |-> 0, res |-> NoResult])
    ELSE IF resp.kind = "object" /\ "errors" \in resp.body.keys
         THEN (IF "extras" \in resp.body.keys
               THEN Sleep(resp.body.wait_seconds)
               ELSE [kind |-> "break", wait |-> 0, res |-> NoResult])
    ELSE IF resp.list = << >> THEN [kind |-> "break", wait |-> 0, res |-> NoResult]
    ELSE [kind |-> "extend", wait |-> 0, res |-> NoResult]

\* lines 101-115: what the listing loop does with the response to its request
ListingOutcome(resp) ==
    IF resp.kind = "text" THEN TextOutcome(resp.text)
    ELSE IF resp.kind = "object" /\ "errors" \in resp.body.keys
         THEN (IF "extras" \in resp.body.keys
               THEN Sleep(resp.body.wait_seconds) ELSE Raise)
    ELSE IF resp.list = << >> THEN [kind |-> "break", wait |-> 0, res |-> NoResult]
    ELSE [kind |-> "extend", wait |-> 0, res |-> NoResult]

\* ------------------------------------------------------------- sort
\* the order of two created_at strings of the one ISO-8601 format
CreatedAtLess(a, b) ==
    \/ DateLess(a.date, b.date)
    \/ a.date = b.date /\ a.sec < b.sec

RECURSIVE InsertDescendingUnstable(_, _)
InsertDescendingUnstable(list, r) ==
    IF list = << >> THEN << r >>
    ELSE IF ~CreatedAtLess(r.created_at, Head(list).created_at)
         THEN << r >> \o list
    ELSE << Head(list) >> \o InsertDescendingUnstable(Tail(list), r)

\* r goes behind every record whose key is not smaller than its own
RECURSIVE InsertDescending(_, _)
InsertDescending(list, r) ==
    IF list = << >> THEN << r >>
    ELSE IF CreatedAtLess(Head(list).created_at, r.created_at)
         THEN << r >> \o list
    ELSE << Head(list) >> \o InsertDescending(Tail(list), r)

RECURSIVE SortDescending(_)
\* listed.sort(key=lambda x: x["created_at"], reverse=True)
SortDescending(list) ==
    IF list = << >> THEN << >>
    ELSE InsertDescending(SortDescending(SubSeq(list, 1, Len(list) - 1)),
                          list[Len(list)])

\* ------------------------------------------------------------- state
VARIABLES
    runNo,        \* which run of the program this is
    concurrency,  \* the concurrency argument
    cutoffArg,    \* the _utc_timestemp argument
    file,         \* discourse_users.json: whether it exists, and its text
    pc,           \* where get_list_of_users_email stands
    page,         \* line 87
    json_data,    \* line 86
    sleepLeft,    \* what is left of the sleep of the listing loop
    rlCount,      \* rate-limit responses the remote gave in this phase
    sem,          \* the value of the semaphore of line 129
    cutoff_ts,    \* line 131
    tpc,          \* where each task of line 194 stands
    tleft,        \* what is left of the sleep of each task
    tres,         \* what each task returned
    result,       \* what get_list_of_users_email returned
    listed,       \* history: was a listing request issued in this run
    writes,       \* history: writes of the snapshot file in this run
    fileAtStart,  \* history: the snapshot file when this run started
    lastRL,       \* history: the last rate-limit response of the listing
    lastList,     \* history: the listing response handled by the last step
    lastResp,     \* history: the detail response handled by the last step
    prevFed,      \* history: the summaries the run before fed to enrichment
    pages         \* history: the non-empty pages the remote sent in this run

vars == << runNo, concurrency, cutoffArg, file, pc, page, json_data,
           sleepLeft, rlCount, sem, cutoff_ts, tpc, tleft, tres, result,
           listed, writes, fileAtStart, lastRL, lastList, lastResp, prevFed, pages >>

NoFile == [exists |-> FALSE, text |-> << >>]
FileOf(text) == [exists |-> TRUE, text |-> text]
NoReturn == [returned |-> FALSE, listed |-> << >>]
NoRL == [set |-> FALSE, page |-> 0, wait |-> 0, len |-> 0, elapsed |-> 0]
NoList == [set |-> FALSE, resp |-> ArrayResponse(<< >>), page |-> 0, data |-> << >>]
NoResp == [set |-> FALSE, task |-> 0, resp |-> TextResponse(<< >>)]
NoFed == [set |-> FALSE, data |-> << >>]

Tasks == DOMAIN tpc
Live(t) == tpc[t] \in {"wait", "get", "sleep"}
InFlight == { t \in Tasks : tpc[t] = "get" }

\* a snapshot file some earlier run left behind
InitialFiles ==
    { NoFile, FileOf(JsonDump(<< >>)), FileOf(JsonDump(<< Summary(2), Summary(1) >>)) }

Init ==
    /\ runNo = 1
    /\ concurrency \in 1 .. MaxConcurrency
    /\ cutoffArg \in CutoffArgs
    /\ file \in InitialFiles
    /\ pc = "start"
    /\ page = 1
    /\ json_data = << >>
    /\ sleepLeft = 0
    /\ rlCount = 0
    /\ sem = 0
    /\ cutoff_ts = 0
    /\ tpc = << >>
    /\ tleft = << >>
    /\ tres = << >>
    /\ result = NoReturn
    /\ listed = FALSE
    /\ writes = 0
    /\ fileAtStart = file
    /\ lastRL = NoRL
    /\ lastList = NoList
    /\ lastResp = NoResp
    /\ prevFed = NoFed
    /\ pages = << >>

\* ------------------------------------------------------------- actions
\* lines 125-196: with the summaries in hand, return [] or create the tasks
Enrich(data) ==
    IF data = << >>
    THEN /\ pc' = "done"
         /\ result' = [returned |-> TRUE, listed |-> << >>]
         /\ UNCHANGED << sem, cutoff_ts, tpc, tleft, tres >>
    ELSE /\ pc' = "gather"
         /\ sem' = concurrency
         /\ cutoff_ts' = IF cutoffArg.given THEN cutoffArg.ts ELSE WallClock
         /\ tpc' = [t \in 1 .. Len(data) |-> "wait"]
         /\ tleft' = [t \in 1 .. Len(data) |-> 0]
         /\ tres' = [t \in 1 .. Len(data) |-> NoResult]
         /\ UNCHANGED result

\* lines 89-93: the snapshot file exists
LoadSnapshot ==
    /\ pc = "start"
    /\ file.exists
    /\ json_data' = JsonLoad(file.text)
    /\ Enrich(json_data')
    /\ lastList' = NoList
    /\ lastResp' = NoResp
    /\ UNCHANGED << runNo, concurrency, cutoffArg, file, page, sleepLeft,
                    rlCount, listed, writes, fileAtStart, lastRL, prevFed, pages >>

\* lines 94-100: no snapshot file; request page 1
StartListing ==
    /\ pc = "start"
    /\ ~file.exists
    /\ pc' = "listReq"
    /\ listed' = TRUE
    /\ lastList' = NoList
    /\ lastResp' = NoResp
    /\ UNCHANGED << runNo, concurrency, cutoffArg, file, page, json_data,
                    sleepLeft, rlCount, sem, cutoff_ts, tpc, tleft, tres,
                    result, writes, fileAtStart, lastRL, prevFed, pages >>

ExtendedAgain(data, list) == data \o list \o list
\* line 117: json_data.extend(resp)
Extended(data, list) == data \o list

WriteSnapshotUnlessEmpty(data) ==
    IF data = << >> THEN NoFile ELSE FileOf(JsonDump(data))
\* lines 121-123
WriteSnapshot(data) == FileOf(JsonDump(data))

\* lines 101-127: the response to the listing request arrives
ListingResponse(resp) ==
    /\ pc = "listReq"
    /\ LET out == ListingOutcome(resp) IN
       /\ lastList' = [set |-> TRUE, resp |-> resp, page |-> page, data |-> json_data]
       /\ lastResp' = NoResp
       /\ CASE out.kind = "sleep" ->
                 /\ rlCount < MaxRateLimits
                 /\ pc' = "listSleep"
                 /\ sleepLeft' = out.wait
                 /\ rlCount' = rlCount + 1
                 /\ lastRL' = [set |-> TRUE, page |-> page, wait |-> out.wait,
                               len |-> Len(json_data), elapsed |-> 0]
                 /\ UNCHANGED << file, page, json_data, sem, cutoff_ts, tpc,
                                 tleft, tres, result, listed, writes >>
            [] out.kind = "raise" ->
                 /\ pc' = "aborted"
                 /\ UNCHANGED << file, page, json_data, sleepLeft, rlCount,
                                 sem, cutoff_ts, tpc, tleft, tres, result,
                                 listed, writes, lastRL >>
            [] out.kind = "break" ->
                 /\ file' = WriteSnapshot(json_data)
                 /\ writes' = writes + 1
                 /\ Enrich(json_data)
                 /\ rlCount' = 0
                 /\ lastRL' = NoRL
                 /\ UNCHANGED << page, json_data, sleepLeft, listed >>
            [] out.kind = "extend" ->
                 /\ page < MaxPage
                 /\ Len(json_data) + Len(resp.list) <= MaxEntries
                 /\ json_data' = Extended(json_data, resp.list)
                 /\ page' = page + 1
                 /\ lastRL' = NoRL
                 /\ UNCHANGED << file, pc, sleepLeft, rlCount, sem, cutoff_ts,
                                 tpc, tleft, tres, result, listed, writes >>
    /\ pages' = IF resp.kind = "array" /\ resp.list # << >>
                 THEN Append(pages, [page |-> page, list |-> resp.list])
                 ELSE pages
    /\ UNCHANGED << runNo, concurrency, cutoffArg, fileAtStart, prevFed >>

SleepOverAtOnce(left) == TRUE
\* await asyncio.sleep(wait_seconds) returns when the whole wait has passed
SleepOver(left) == left = 0

\* lines 106-107, 114-115: the sleep is over; request the same page again
ListingWake ==
    /\ pc = "listSleep"
    /\ SleepOver(sleepLeft)
    /\ pc' = "listReq"
    /\ lastList' = NoList
    /\ lastResp' = NoResp
    /\ UNCHANGED << runNo, concurrency, cutoffArg, file, page, json_data,
                    sleepLeft, rlCount, sem, cutoff_ts, tpc, tleft, tres,
                    result, listed, writes, fileAtStart, lastRL, prevFed, pages >>

CanAcquireOffByOne(value) == value >= 0
\* line 138: a task that asks for a slot gets it when the semaphore is free
CanAcquire(value) == value > 0
Acquired(value) == value - 1
ReleasedAfterSleep(value) == value
\* the end of the async with block of line 138
Released(value) == value + 1

\* lines 134-143: the task takes a slot and sends its request
TaskAcquire(t) ==
    /\ pc = "gather"
    /\ tpc[t] = "wait"
    /\ CanAcquire(sem)
    /\ sem' = Acquired(sem)
    /\ tpc' = [tpc EXCEPT ![t] = "get"]
    /\ lastList' = NoList
    /\ lastResp' = NoResp
    /\ UNCHANGED << runNo, concurrency, cutoffArg, file, pc, page, json_data,
                    sleepLeft, rlCount, cutoff_ts, tleft, tres, result,
                    listed, writes, fileAtStart, lastRL, prevFed, pages >>

\* the client cannot build the request from this identifier
RaisesTypeError(index) == index.id = 0

TaskTypeErrorUncaught(t) ==
    /\ pc = "gather"
    /\ tpc[t] = "get"
    /\ RaisesTypeError(json_data[t])
    /\ sem' = Released(sem)
    /\ tpc' = [tpc EXCEPT ![t] = "failed"]
    /\ lastList' = NoList
    /\ lastResp' = NoResp
    /\ UNCHANGED << runNo, concurrency, cutoffArg, file, pc, page, json_data,
                    sleepLeft, rlCount, cutoff_ts, tleft, tres, result, listed,
                    writes, fileAtStart, lastRL, prevFed, pages >>

\* lines 144-146: the request raises TypeError; the task returns None
TaskTypeError(t) ==
    /\ pc = "gather"
    /\ tpc[t] = "get"
    /\ RaisesTypeError(json_data[t])
    /\ sem' = Released(sem)
    /\ tpc' = [tpc EXCEPT ![t] = "done"]
    /\ tres' = [tres EXCEPT ![t] = NoResult]
    /\ lastList' = NoList
    /\ lastResp' = NoResp
    /\ UNCHANGED << runNo, concurrency, cutoffArg, file, pc, page, json_data,
                    sleepLeft, rlCount, cutoff_ts, tleft, result, listed,
                    writes, fileAtStart, lastRL, prevFed, pages >>

\* lines 141-191: the response arrives; the task leaves the async with
\* block, then sleeps to retry, raises, or returns
TaskResponse(t, resp) ==
    /\ pc = "gather"
    /\ tpc[t] = "get"
    /\ ~RaisesTypeError(json_data[t])
    /\ sem' = Released(sem)
    /\ lastList' = NoList
    /\ lastResp' = [set |-> TRUE, task |-> t, resp |-> resp]
    /\ LET out == DetailOutcome(json_data[t], resp, cutoff_ts) IN
       CASE out.kind = "sleep" ->
                 /\ rlCount < MaxRateLimits
                 /\ rlCount' = rlCount + 1
                 /\ tpc' = [tpc EXCEPT ![t] = "sleep"]
                 /\ tleft' = [tleft EXCEPT ![t] = out.wait]
                 /\ UNCHANGED tres
         [] out.kind = "raise" ->
                 /\ tpc' = [tpc EXCEPT ![t] = "failed"]
                 /\ UNCHANGED << rlCount, tleft, tres >>
         [] out.kind = "return" ->
                 /\ tpc' = [tpc EXCEPT ![t] = "done"]
                 /\ tres' = [tres EXCEPT ![t] = out.res]
                 /\ UNCHANGED << rlCount, tleft >>
    /\ UNCHANGED << runNo, concurrency, cutoffArg, file, pc, page, json_data,
                    sleepLeft, cutoff_ts, result, listed, writes, fileAtStart,
                    lastRL, prevFed, pages >>

\* lines 154-155, 160-161: the sleep is over; back to line 138
TaskWake(t) ==
    /\ pc = "gather"
    /\ tpc[t] = "sleep"
    /\ SleepOver(tleft[t])
    /\ tpc' = [tpc EXCEPT ![t] = "wait"]
    /\ lastList' = NoList
    /\ lastResp' = NoResp
    /\ UNCHANGED << runNo, concurrency, cutoffArg, file, pc, page, json_data,
                    sleepLeft, rlCount, sem, cutoff_ts, tleft, tres, result,
                    listed, writes, fileAtStart, lastRL, prevFed, pages >>

\* one time unit passes for every coroutine that sleeps
Tick ==
    /\ \/ pc = "listSleep" /\ sleepLeft > 0
       \/ pc = "gather" /\ \E t \in Tasks : tpc[t] = "sleep" /\ tleft[t] > 0
    /\ sleepLeft' = IF sleepLeft > 0 THEN sleepLeft - 1 ELSE 0
    /\ tleft' = [t \in Tasks |-> IF tleft[t] > 0 THEN tleft[t] - 1 ELSE 0]
    /\ lastRL' = IF lastRL.set THEN [lastRL EXCEPT !.elapsed = @ + 1] ELSE lastRL
    /\ lastList' = NoList
    /\ lastResp' = NoResp
    /\ UNCHANGED << runNo, concurrency, cutoffArg, file, pc, page, json_data,
                    rlCount, sem, cutoff_ts, tpc, tres, result, listed,
                    writes, fileAtStart, prevFed, pages >>

RECURSIVE Collect(_)
\* line 199: the results that are not None, in the order of the tasks
Collect(results) ==
    IF results = << >> THEN << >>
    ELSE (IF Head(results).some THEN << Head(results).rec >> ELSE << >>)
         \o Collect(Tail(results))

FirstReturned == \E t \in Tasks : tpc[t] = "done"
\* line 198: gather hands the results over when every task has returned
AllReturned == \A t \in Tasks : tpc[t] = "done"

\* lines 198-203: every task has returned; filter, sort, return
GatherReturn ==
    /\ pc = "gather"
    /\ AllReturned
    /\ pc' = "done"
    /\ result' = [returned |-> TRUE, listed |-> SortDescending(Collect(tres))]
    /\ lastList' = NoList
    /\ lastResp' = NoResp
    /\ UNCHANGED << runNo, concurrency, cutoffArg, file, page, json_data,
                    sleepLeft, rlCount, sem, cutoff_ts, tpc, tleft, tres,
                    listed, writes, fileAtStart, lastRL, prevFed, pages >>

\* the tasks still alive are cancelled; one inside the async with block
\* gives its slot back
CancelAll ==
    /\ tpc' = [t \in Tasks |-> IF Live(t) THEN "cancelled" ELSE tpc[t]]
    /\ sem' = sem + Cardinality(InFlight)

\* line 198, return_exceptions=False: the exception a task raised leaves
\* gather, get_list_of_users_email and main at once, nothing is returned,
\* and uvloop.run (line 242) cancels the tasks still alive
GatherRaise ==
    /\ pc = "gather"
    /\ \E t \in Tasks : tpc[t] = "failed"
    /\ pc' = "aborted"
    /\ CancelAll
    /\ lastList' = NoList
    /\ lastResp' = NoResp
    /\ UNCHANGED << runNo, concurrency, cutoffArg, file, page, json_data,
                    sleepLeft, rlCount, cutoff_ts, tleft, tres, result,
                    listed, writes, fileAtStart, lastRL, prevFed, pages >>

\* the process is terminated from outside during the listing phase
Terminate ==
    /\ pc \in {"listReq", "listSleep"}
    /\ pc' = "killed"
    /\ lastList' = NoList
    /\ lastResp' = NoResp
    /\ UNCHANGED << runNo, concurrency, cutoffArg, file, page, json_data,
                    sleepLeft, rlCount, sem, cutoff_ts, tpc, tleft, tres,
                    result, listed, writes, fileAtStart, lastRL, prevFed, pages >>

\* the program is run again, with the snapshot file as the last run left it
NextRun ==
    /\ pc \in {"done", "aborted", "killed"}
    /\ runNo < MaxRuns
    /\ runNo' = runNo + 1
    /\ pc' = "start"
    /\ page' = 1
    /\ json_data' = << >>
    /\ sleepLeft' = 0
    /\ rlCount' = 0
    /\ sem' = 0
    /\ cutoff_ts' = 0
    /\ tpc' = << >>
    /\ tleft' = << >>
    /\ tres' = << >>
    /\ result' = NoReturn
    /\ listed' = FALSE
    /\ writes' = 0
    /\ fileAtStart' = file
    /\ lastRL' = NoRL
    /\ lastList' = NoList
    /\ lastResp' = NoResp
    /\ prevFed' = IF writes > 0 THEN [set |-> TRUE, data |-> json_data] ELSE NoFed
    /\ pages' = << >>
    /\ UNCHANGED << concurrency, cutoffArg, file >>

Next ==
    \/ LoadSnapshot
    \/ StartListing
    \/ \E resp \in ListingResponses : ListingResponse(resp)
    \/ ListingWake
    \/ \E t \in Tasks : TaskAcquire(t)
    \/ \E t \in Tasks : TaskTypeError(t)
    \/ \E t \in Tasks : \E resp \in DetailResponses : TaskResponse(t, resp)
    \/ \E t \in Tasks : TaskWake(t)
    \/ Tick
    \/ GatherReturn
    \/ GatherRaise
    \/ Terminate
    \/ NextRun

Spec == Init /\ [][Next]_vars

\* ------------------------------------- enrichment with a remote that cooperates
\* what a cooperating remote answers to GET /admin/users/{id}.json: a rate
\* limit, as a structured body with or without error_type or as text with
\* the wait on its second line, or the detail of the user
CooperatingResponses ==
    { ObjectResponse(b) : b \in { d \in DetailBodies : "created_at" \in d.keys } }
    \cup { ObjectResponse(RateLimitBody(w)) : w \in 1 .. MaxWait }
    \cup { ObjectResponse(ErrorsBody(w)) : w \in 1 .. MaxWait }
    \cup { TextResponse(t) : t \in { x \in TextBodies : HasWaitHint(x) } }

\* the snapshot files of a listing that is not empty
SnapshotFiles ==
    { FileOf(JsonDump(l)) : l \in SeqsUpTo(Summaries, MaxEntries) \ { << >> } }

\* lines 74-93: the run finds a snapshot, so that it goes to the tasks at once
InitEnrich ==
    /\ runNo = 1
    /\ concurrency \in 1 .. MaxConcurrency
    /\ cutoffArg \in CutoffArgs
    /\ file \in SnapshotFiles
    /\ pc = "start"
    /\ page = 1
    /\ json_data = << >>
    /\ sleepLeft = 0
    /\ rlCount = 0
    /\ sem = 0
    /\ cutoff_ts = 0
    /\ tpc = << >>
    /\ tleft = << >>
    /\ tres = << >>
    /\ result = NoReturn
    /\ listed = FALSE
    /\ writes = 0
    /\ fileAtStart = file
    /\ lastRL = NoRL
    /\ lastList = NoList
    /\ lastResp = NoResp
    /\ prevFed = NoFed
    /\ pages = << >>

TaskIds == 1 .. MaxEntries

TaskAcquires(t) == t \in Tasks /\ TaskAcquire(t)
TaskTypeErrors(t) == t \in Tasks /\ TaskTypeError(t)
TaskAnswered(t) ==
    t \in Tasks /\ \E resp \in CooperatingResponses : TaskResponse(t, resp)
TaskWakes(t) == t \in Tasks /\ TaskWake(t)

NextEnrich ==
    \/ LoadSnapshot
    \/ \E t \in TaskIds : TaskAcquires(t)
    \/ \E t \in TaskIds : TaskTypeErrors(t)
    \/ \E t \in TaskIds : TaskAnswered(t)
    \/ \E t \in TaskIds : TaskWakes(t)
    \/ Tick
    \/ GatherReturn
    \/ GatherRaise

\* the event loop runs every coroutine that is ready (a task that can take a
\* slot, a sleep that is over, gather when its tasks are through), time
\* passes, and the remote answers every request
Fairness ==
    /\ WF_vars(LoadSnapshot)
    /\ WF_vars(Tick)
    /\ WF_vars(GatherReturn)
    /\ WF_vars(GatherRaise)
    /\ \A t \in TaskIds :
        /\ WF_vars(TaskAcquires(t))
        /\ WF_vars(TaskTypeErrors(t))
        /\ WF_vars(TaskAnswered(t))
        /\ WF_vars(TaskWakes(t))

EnrichSpec == InitEnrich /\ [][NextEnrich]_vars /\ Fairness

\* ------------------------------------------------------------- claims
ListingPcs == {"listReq", "listSleep"}

\* the last step handled the detail response of task lastResp.task
Handled == lastResp.set
HandledBody == lastResp.resp.body
Excluded(t) == tpc[t] = "done" /\ ~tres[t].some

\* every record of the returned sequence is what some task returned
ResultFromTasks ==
    result.returned =>
        \A i \in DOMAIN result.listed :
            \E t \in Tasks : tres[t].some /\ tres[t].rec = result.listed[i]

\* C1: while the tasks run, the detail requests in flight are never more
\* than concurrency, and the slots taken and free add up to concurrency.
C1_InFlightAtMostConcurrency ==
    pc = "gather" =>
        /\ Cardinality(InFlight) <= concurrency
        /\ sem >= 0
        /\ sem + Cardinality(InFlight) = concurrency

\* every slot is taken, a task waits for one, and a task has already been
\* rate-limited and gone back for a slot
C1_Witness ==
    /\ pc = "gather"
    /\ rlCount > 0
    /\ Cardinality(InFlight) = concurrency
    /\ \E t \in Tasks : tpc[t] = "wait"

\* C2 (as claimed): a task that fails never aborts the run and never has
\* its siblings cancelled.
C2_TaskFailureContained ==
    \A t \in Tasks :
        tpc[t] = "failed" =>
            /\ pc # "aborted"
            /\ \A u \in Tasks : tpc[u] # "cancelled"

\* a rate-limit response as the remote sends it: the structured body with
\* an error list and a wait, or text with the wait on its second line
IsRateLimitResponse(resp) ==
    \/ resp.kind = "object" /\ {"errors", "extras"} \subseteq resp.body.keys
    \/ resp.kind = "text" /\ HasWaitHint(resp.text)

\* C3 (as claimed): a task that receives a rate-limit response, structured
\* or not, sleeps to retry; it neither raises nor returns.
C3_RateLimitAlwaysRetried ==
    (Handled /\ IsRateLimitResponse(lastResp.resp)) =>
        tpc[lastResp.task] = "sleep"

\* C4: a rate-limit payload {errors, extras: {wait_seconds: w}} leaves the
\* page counter and the accumulated listing as they were and puts the loop
\* to sleep for w; the same page is requested again only when w time units
\* have passed; a non-empty array is then accumulated and the page counter
\* advances by one.
C4_ListingRetriesSamePageAfterWait ==
    /\ (lastList.set /\ lastList.resp.kind = "object"
            /\ {"errors", "extras"} \subseteq lastList.resp.body.keys) =>
         /\ pc = "listSleep"
         /\ sleepLeft = lastList.resp.body.wait_seconds
         /\ page = lastList.page
         /\ json_data = lastList.data
    /\ (pc = "listReq" /\ lastRL.set) =>
         /\ page = lastRL.page
         /\ Len(json_data) = lastRL.len
         /\ lastRL.elapsed >= lastRL.wait
    /\ (lastList.set /\ lastList.resp.kind = "array" /\ lastList.resp.list # << >>) =>
         /\ pc = "listReq"
         /\ page = lastList.page + 1
         /\ json_data = lastList.data \o lastList.resp.list

\* page 1 is requested again after a rate limit with a wait of MaxWait
C4_Witness ==
    /\ pc = "listReq"
    /\ lastRL.set
    /\ lastRL.page = 1
    /\ lastRL.wait = MaxWait
    /\ lastRL.elapsed = MaxWait

\* C5 (as claimed): a page-count ceiling ends the listing loop, so the loop
\* never asks for the last page the remote of the model serves.
C5_PageCeilingEndsListing ==
    pc \in ListingPcs => page < MaxPage

\* C6: a run that found the snapshot file issues no listing request, leaves
\* the file as it found it, and works on the summaries the file holds, in
\* the file's order, one task for each.
C6_SnapshotSkipsListing ==
    fileAtStart.exists =>
        /\ ~listed
        /\ writes = 0
        /\ file = fileAtStart
        /\ pc # "start" =>
             /\ JsonDump(json_data) = fileAtStart.text
             /\ pc = "gather" => Len(tpc) = Len(json_data)

\* a run that found a snapshot of two summaries has returned
C6_Witness ==
    /\ fileAtStart.exists
    /\ pc = "done"
    /\ Len(json_data) = 2
    /\ result.returned

C8_SnapshotRoundTrip ==
    (prevFed.set /\ fileAtStart.exists /\ pc # "start") =>
        /\ json_data = prevFed.data
        /\ pc = "gather" => Len(tpc) = Len(prevFed.data)

\* the second run works on the two different summaries the first fetched
C8_Witness ==
    /\ runNo = 2
    /\ prevFed.set
    /\ Len(prevFed.data) = 2
    /\ prevFed.data[1] # prevFed.data[2]
    /\ pc = "gather"

\* C9: a detail whose silenced and suspended counters are both non-zero
\* ends its task with an exclusion, whatever its other fields, and no
\* returned record comes from anything but a task's inclusion.
C9_PenalizedExcluded ==
    /\ (Handled /\ lastResp.resp.kind = "object"
            /\ "penalty_counts" \in HandledBody.keys
            /\ HandledBody.silenced # 0 /\ HandledBody.suspended # 0) =>
         Excluded(lastResp.task)
    /\ ResultFromTasks

\* a penalized detail without created_at was handled
C9_Witness ==
    /\ Handled
    /\ HandledBody.silenced # 0
    /\ HandledBody.suspended # 0
    /\ "created_at" \notin HandledBody.keys
    /\ Excluded(lastResp.task)

\* C10: a detail whose created_at date is after the date of the cutoff ends
\* its task with an exclusion.
C10_CreatedAfterCutoffDateExcluded ==
    (Handled /\ lastResp.resp.kind = "object"
        /\ "created_at" \in HandledBody.keys
        /\ DateLess(DateOfTs(cutoff_ts), HandledBody.created_at.date)) =>
      Excluded(lastResp.task)

\* with the default cutoff, an unpenalized detail with an external id,
\* created the day after, was handled
C10_Witness ==
    /\ Handled
    /\ ~cutoffArg.given
    /\ "created_at" \in HandledBody.keys
    /\ HandledBody.created_at.date = D4
    /\ HandledBody.external_ids # {}
    /\ HandledBody.silenced = 0
    /\ Excluded(lastResp.task)

\* the instant a created_at string names, in seconds since the epoch
InstantOf(c) == Timegm(c.date) + c.sec

\* the last step handled a detail that has a created_at and is not
\* penalized
HandledUnpenalized ==
    /\ Handled
    /\ lastResp.resp.kind = "object"
    /\ ~("error_type" \in HandledBody.keys)
    /\ "created_at" \in HandledBody.keys
    /\ ~(HandledBody.silenced # 0 /\ HandledBody.suspended # 0)

Included(t) == tpc[t] = "done" /\ tres[t].some

\* C11 (as claimed): every account created at an instant after the cutoff
\* is excluded, also one created later on the day of the cutoff.
C11_CreatedAfterCutoffInstantExcluded ==
    (HandledUnpenalized /\ InstantOf(HandledBody.created_at) > cutoff_ts) =>
        Excluded(lastResp.task)

\* C11 (amended): the cutoff is compared with the UTC midnight of the day
\* of creation. An unpenalized account with an external id is excluded as
\* too new exactly when that midnight is after the cutoff: an account
\* created at the cutoff instant, or later on the day of the cutoff, is
\* included.
C11_CutoffComparesMidnight ==
    (HandledUnpenalized /\ HandledBody.external_ids # {}) =>
        LET c == HandledBody.created_at
            midnight == InstantOf(c) - c.sec
        IN  /\ midnight > cutoff_ts => Excluded(lastResp.task)
            /\ midnight <= cutoff_ts => Included(lastResp.task)

\* an account created on the day of the cutoff, hours after it, was
\* included
C11_Witness ==
    /\ HandledUnpenalized
    /\ cutoffArg.given
    /\ DateOfTs(cutoff_ts) = HandledBody.created_at.date
    /\ InstantOf(HandledBody.created_at) > cutoff_ts
    /\ Included(lastResp.task)

\* C12: an unpenalized detail whose creation date is not after the date of
\* the cutoff and whose external_ids is empty or absent ends its task with
\* an exclusion.
C12_NoExternalIdsExcluded ==
    (HandledUnpenalized
        /\ ~DateLess(DateOfTs(cutoff_ts), HandledBody.created_at.date)
        /\ ("external_ids" \notin HandledBody.keys \/ HandledBody.external_ids = {})) =>
      Excluded(lastResp.task)

\* a detail without the external_ids member, created before the cutoff,
\* was handled
C12_Witness ==
    /\ HandledUnpenalized
    /\ "external_ids" \notin HandledBody.keys
    /\ InstantOf(HandledBody.created_at) <= cutoff_ts
    /\ Excluded(lastResp.task)

\* the pair of the last step passes the three checks
HandledPasses ==
    /\ HandledUnpenalized
    /\ ~DateLess(DateOfTs(cutoff_ts), HandledBody.created_at.date)
    /\ HandledBody.external_ids # {}

\* the tasks that ended with a record
Including == { t \in Tasks : tres[t].some }

\* C13: a pair that passes the three checks ends its task with one record:
\* the summary's username, name and email, the detail's created_at, and the
\* oidc entry of external_ids or none; the returned sequence has one record
\* for each such task.
C13_PassingPairListed ==
    /\ HandledPasses =>
         LET t == lastResp.task
             ids == HandledBody.external_ids
         IN  /\ Included(t)
             /\ tres[t].rec.username = json_data[t].username
             /\ tres[t].rec.name = json_data[t].name
             /\ tres[t].rec.email = json_data[t].email
             /\ tres[t].rec.created_at = HandledBody.created_at
             /\ \A it \in ids : it[1] = "oidc" => tres[t].rec.oidc = it[2]
             /\ (\A it \in ids : it[1] # "oidc") => tres[t].rec.oidc = ""
    /\ result.returned =>
         /\ Len(result.listed) = Cardinality(Including)
         /\ \A t \in Including :
                \E i \in DOMAIN result.listed : result.listed[i] = tres[t].rec

\* a pair whose external_ids has no oidc entry was listed
C13_Witness ==
    /\ HandledPasses
    /\ \A it \in HandledBody.external_ids : it[1] # "oidc"
    /\ Included(lastResp.task)
    /\ tres[lastResp.task].rec.oidc = ""

\* the records of a sequence whose created_at is c, in their order
WithKey(list, c) == SelectSeq(list, LAMBDA r : r.created_at = c)

\* C14: the returned sequence is in descending order of created_at, and
\* the records of one created_at are in the order of their tasks.
C14_SortedDescendingStable ==
    result.returned =>
        /\ \A i, j \in DOMAIN result.listed :
               i < j => ~CreatedAtLess(result.listed[i].created_at,
                                       result.listed[j].created_at)
        /\ \A c \in CreatedAts :
               WithKey(result.listed, c) = WithKey(Collect(tres), c)

\* two records were returned in the reverse of the order of their tasks
C14_Witness ==
    /\ result.returned
    /\ Len(result.listed) = 2
    /\ result.listed[1] = tres[2].rec
    /\ result.listed[2] = tres[1].rec
    /\ result.listed[1] # result.listed[2]

Sleeping == { t \in Tasks : tpc[t] = "sleep" }

\* C15 (as claimed): a task keeps its slot while it sleeps after a rate
\* limit, so with concurrency tasks asleep no request is in flight.
C15_SlotHeldWhileSleeping ==
    pc = "gather" =>
        /\ sem = concurrency - Cardinality(InFlight) - Cardinality(Sleeping)
        /\ Cardinality(Sleeping) >= concurrency => InFlight = {}

\* C15 (amended): a task has given its slot back when it goes to sleep
\* after a rate limit: the slots taken are those of the requests in
\* flight alone, and a slot is free in the state the sleep starts in.
C15_SlotReleasedBeforeSleep ==
    (pc = "gather" /\ Sleeping # {}) =>
        /\ sem = concurrency - Cardinality(InFlight)
        /\ (Handled /\ lastResp.task \in Sleeping) => sem >= 1

\* concurrency tasks sleep with time left while another has its request
\* in flight
C15_Witness ==
    /\ pc = "gather"
    /\ Cardinality({ t \in Sleeping : tleft[t] > 0 }) >= concurrency
    /\ InFlight # {}

\* the client cannot build the request of task t
BadId(t) == json_data[t].id = 0

\* C16: the step in which the request of a task raises TypeError ends that
\* task with an exclusion, frees its slot, and leaves the run and every
\* other task as they are; a run that returns lists no such user and lists
\* the record of every other task that ended with one.
C16_TypeErrorContained ==
    /\ [](result.returned =>
            /\ \A t \in Tasks : BadId(t) => Excluded(t)
            /\ \A t \in Including :
                   \E i \in DOMAIN result.listed : result.listed[i] = tres[t].rec)
    /\ [][\A t \in Tasks :
            (tpc[t] = "get" /\ BadId(t) /\ pc' = "gather") =>
                \/ tpc'[t] = "get"
                \/ /\ tpc'[t] = "done"
                   /\ ~tres'[t].some
                   /\ sem' = sem + 1
                   /\ pc' = pc
                   /\ \A u \in Tasks \ {t} : tpc'[u] = tpc[u] /\ tres'[u] = tres[u]
         ]_vars

\* a run with a malformed identifier returned the record of the other user
C16_Witness ==
    /\ result.returned
    /\ Len(result.listed) = 1
    /\ \E t \in Tasks : BadId(t)

RECURSIVE Concatenated(_)
\* the entries of a sequence of pages, page after page
Concatenated(ps) ==
    IF ps = << >> THEN << >>
    ELSE Concatenated(SubSeq(ps, 1, Len(ps) - 1)) \o ps[Len(ps)].list

\* C17: in a run that lists, the accumulated listing is the non-empty
\* pages the remote sent, in the order of their page numbers, which are
\* 1, 2, ... without a gap; the page the loop asks for next is the one
\* after the last of them, whatever rate limits came in between.
C17_ListingIsPagesInOrder ==
    listed =>
        /\ json_data = Concatenated(pages)
        /\ \A i \in DOMAIN pages : pages[i].page = i
        /\ page = Len(pages) + 1

\* two pages were accumulated, MaxRateLimits rate limits came in between,
\* and the third page is asked for
C17_Witness ==
    /\ pc = "listReq"
    /\ Len(pages) = 2
    /\ rlCount = MaxRateLimits

\* C18: a run returns only when every task has returned: in a state with a
\* returned result no task is fetching, sleeping, waiting, failed or
\* cancelled, and the returned sequence has the record of every task that
\* ended with one, and nothing else.
C18_ResultAfterAllTasks ==
    /\ result.returned =>
         /\ \A t \in Tasks : tpc[t] = "done"
         /\ Len(result.listed) = Cardinality(Including)
         /\ \A t \in Including :
                \E i \in DOMAIN result.listed : result.listed[i] = tres[t].rec
         /\ ResultFromTasks
    /\ (\E t \in Tasks : tpc[t] # "done") => result = NoReturn

\* a run returned two records after a task had slept on a rate limit
C18_Witness ==
    /\ result.returned
    /\ Len(result.listed) = 2
    /\ rlCount > 0

\* the text of an empty array
EmptyArrayText == << Tok("[", 0, ""), Tok("]", 0, "") >>

\* C20: the step that handles an empty first page writes a snapshot of an
\* empty array, creates no task and returns the empty sequence; a run that
\* finds that snapshot issues no listing request, creates no task and
\* returns the empty sequence.
C20_EmptyListingCached ==
    /\ (lastList.set /\ lastList.page = 1
            /\ lastList.resp.kind = "array" /\ lastList.resp.list = << >>) =>
         /\ file = FileOf(EmptyArrayText)
         /\ Tasks = {}
         /\ pc = "done"
         /\ result = [returned |-> TRUE, listed |-> << >>]
    /\ (fileAtStart = FileOf(EmptyArrayText) /\ pc # "start") =>
         /\ ~listed
         /\ Tasks = {}
         /\ pc = "done"
         /\ result = [returned |-> TRUE, listed |-> << >>]

\* the second run found the empty snapshot the first run wrote
C20_Witness ==
    /\ runNo = 2
    /\ prevFed.set
    /\ prevFed.data = << >>
    /\ fileAtStart = FileOf(EmptyArrayText)
    /\ pc = "done"

\* with a cooperating remote and a fair loop the enrichment comes to an end,
\* by a return or by the exception of a task: no task is left waiting for a
\* slot, and every slot is free again
EnrichmentEnds ==
    (pc = "gather") ~>
        /\ pc \in {"done", "aborted"}
        /\ \A t \in Tasks : ~Live(t)
        /\ sem = concurrency

\* C19 (as claimed): with a cooperating remote get_list_of_users_email
\* returns; so a run never comes to the state where the exception of a task
\* has left gather, in which nothing is returned and nothing more is done.
C19_EnrichmentNeverAborts == pc # "aborted"

====
